---- MODULE Spec2Model ----
(***************************************************************************)
(* A model of the scenario-completion ("locking"), validation and phase    *)
(* orchestration code of the student-distribution application:             *)
(*   step2_finalize.py        finalize_step2_assignments,                  *)
(*                            validate_final_assignments                   *)
(*   main_step2_with_lock.py  run_step2_with_lock                          *)
(*   main_app.py              run_step2 .. run_step7, main (the run of all *)
(*                            steps, the steps one at a time, the reset)   *)
(*   app_wrapper_two_buttons.py  the two buttons                           *)
(*                                                                         *)
(* Representation.                                                         *)
(*   A DataFrame is [columns |-> sequence of column names,                 *)
(*                   rows    |-> sequence of rows],                        *)
(*   a row being a function from the column names to cell values; the row  *)
(*   position stands for the RangeIndex label that read_excel / read_csv   *)
(*   give the table.                                                       *)
(*   A column name is a sequence of tokens, e.g. "BHMA2_SENARIO_1" is      *)
(*   <<"BHMA2_", "SENARIO", "_", "1">> (Greek column names are written in  *)
(*   Latin capitals).                                                      *)
(*   A cell is an integer: NaN (0) for a missing value, k >= 1 in the      *)
(*   name column for the k-th distinct student name, and k >= 1 in a class *)
(*   column for the class label "A<k>" (the labels the bootstrap rule      *)
(*   generates with f"A{i+1}").                                            *)
(***************************************************************************)
EXTENDS Integers, Sequences, FiniteSets, TLC

VARIABLES
    \* -- a call of the locking routine, its second application and the
    \*    validation of what it returned
    lock_df,         \* the DataFrame handed to finalize_step2_assignments
    lock_step2_col,  \* its step2_col argument
    lock_final_arg,  \* its final_col_name argument (None when omitted)
    out,             \* what the call did: a return value or an exception
    out2,            \* what a second call, on the returned table, did
    validation,      \* the report of validate_final_assignments
    lock_pc,         \* "input", "locked", "relocked", "validated"
    lock_df_after,   \* the caller's table lock_df as the call left it
    validated_df_after, \* the table handed to the validation as it left it
    \* -- a run of main_step2_with_lock.run_step2_with_lock
    cli_df,          \* the table read from input_file
    cli_step1_column,\* the step1_column argument
    cli_scenarios,   \* what step2_apply_FIXED_v3 returns for it
    cli_out,         \* how the run ended, and the files in output_dir
    cli_pc,          \* "start", "done"
    \* -- a session of main_app.main
    data,            \* st.session_state.data
    results,         \* st.session_state.results
    detailed_steps,  \* st.session_state.detailed_steps
    processing_status, \* st.session_state.processing_status
    current_df,      \* the local current_df of the run of all steps
    pc,              \* where the run of all steps stands: "idle", "step1" .. "step7";
                     \* "rerun" in the script run that st.rerun() starts
    step_status,     \* how every step of the run ended
    step2_info,      \* what step 2 of the run was given, wrote and kept
    run_no,          \* the number of buttons pressed in the session that run steps
    step_column,     \* the column run_step4 and run_step5 of the run were called with
    step1_results,   \* st.session_state.step1_results
    \* -- a press of the second button of app_wrapper_two_buttons
    wrapper_in,      \* the widgets and the files of the working directory
    wrapper_out,     \* what the press did: st.stop() or the call of step 8
    wrapper_pc       \* "form", "done"

lock_vars == <<lock_df, lock_step2_col, lock_final_arg, out, out2, validation, lock_pc,
               lock_df_after, validated_df_after>>

cli_vars == <<cli_df, cli_step1_column, cli_scenarios, cli_out, cli_pc>>

app_vars == <<data, results, detailed_steps, processing_status, current_df, pc,
              step_status, step2_info, run_no, step_column, step1_results>>

wrapper_vars == <<wrapper_in, wrapper_out, wrapper_pc>>

vars == <<lock_vars, cli_vars, app_vars, wrapper_vars>>

\* ------------------------------------------------------------------------
\* Bounds of the model
\* ------------------------------------------------------------------------
\* rows of a table handed to the locking routine
MaxStudents == 3

\* rows of a table handed to run_step2_with_lock
MaxRows == 2

\* scenarios the step-2 solver returns to run_step2_with_lock
MaxScenarios == 2

\* ------------------------------------------------------------------------
\* Values
\* ------------------------------------------------------------------------
NaN == 0

None == <<>>

Classes == {1, 2}

isna(v) == v = NaN

Min(S) == CHOOSE x \in S : \A y \in S : x <= y

Max(S) == CHOOSE x \in S : \A y \in S : x >= y

max(a, b) == IF a >= b THEN a ELSE b

ceil_div(a, b) == (a + b - 1) \div b

RECURSIVE SumOver(_, _)
SumOver(f, S) ==
    IF S = {} THEN 0
    ELSE LET x == CHOOSE y \in S : TRUE IN f[x] + SumOver(f, S \ {x})

\* ------------------------------------------------------------------------
\* Column names
\* ------------------------------------------------------------------------
ONOMA == <<"ONOMA">>

DigitTokens == {"1", "2", "3", "4"}

\* str(i) for a scenario number i
Digit(i) == <<"1", "2", "3", "4">>[i]

Step2Col(id) == <<"BHMA2_", "SENARIO", "_", id>>

Step1Col(id) == <<"BHMA1_", "SENARIO", "_", id>>

\* str.startswith(prefix), the prefix being a sequence of whole tokens
startswith(col, prefix) ==
    Len(col) >= Len(prefix) /\ \A k \in 1..Len(prefix) : col[k] = prefix[k]

\* re.search(r'SENARIO[_\s]*(\d+)', col): the positions p of a "SENARIO"
\* token that is followed by separators and then a number
RECURSIVE skip_separators(_, _)
skip_separators(col, p) ==
    IF p <= Len(col) /\ col[p] \in {"_", " "} THEN skip_separators(col, p + 1)
    ELSE p

scenario_matches(col) ==
    { p \in 1..Len(col) :
        /\ col[p] = "SENARIO"
        /\ skip_separators(col, p + 1) <= Len(col)
        /\ col[skip_separators(col, p + 1)] \in DigitTokens }

\* mutant of scenario_id: the number in the name ignored
scenario_id_always_first(col) == "1"

scenario_id(col) ==
    IF scenario_matches(col) = {} THEN "1"
    ELSE col[skip_separators(col, Min(scenario_matches(col)) + 1)]

default_final_col_name(step2_col) ==
    <<"TELIKO_", "TMHMA_", "SENARIO", "_", scenario_id(step2_col)>>

\* ------------------------------------------------------------------------
\* DataFrame operations
\* ------------------------------------------------------------------------
len(df) == Len(df.rows)

Index(df) == 1..Len(df.rows)

has_column(df, col) == \E k \in 1..Len(df.columns) : df.columns[k] = col

column(df, col) == [r \in Index(df) |-> df.rows[r][col]]

\* df[col] = values : an existing column is overwritten in place, a new one
\* is appended after the others
set_column(df, col, values) ==
    [columns |-> IF has_column(df, col) THEN df.columns
                 ELSE Append(df.columns, col),
     rows    |-> [r \in Index(df) |->
                    [c \in (DOMAIN df.rows[r]) \cup {col} |->
                        IF c = col THEN values[r] ELSE df.rows[r][c]]]]

\* df.loc[idx, col] = value
set_cell(df, idx, col, value) ==
    [df EXCEPT !.rows[idx][col] = value]

\* the row labels of S (a subset of 1..n) in table order
RECURSIVE rows_in_order(_, _)
rows_in_order(S, n) ==
    IF n = 0 THEN <<>>
    ELSE IF n \in S THEN Append(rows_in_order(S, n - 1), n)
    ELSE rows_in_order(S, n - 1)

\* Series.value_counts(): the count of every non-missing value
value_counts(df, col) ==
    [c \in { df.rows[r][col] : r \in { q \in Index(df) : ~isna(df.rows[q][col]) } } |->
        Cardinality({ r \in Index(df) : df.rows[r][col] = c })]

Permutations_of(S) ==
    { s \in [1..Cardinality(S) -> S] :
        \A i, j \in 1..Cardinality(S) : i # j => s[i] # s[j] }

\* mutant of sort_values: descending (ascending=False)
sort_values_descending(counts) ==
    { s \in Permutations_of(DOMAIN counts) :
        \A i, j \in 1..Len(s) : i < j => counts[s[i]] >= counts[s[j]] }

\* Series.sort_values().index.tolist(): ascending by count.  The default
\* sort kind is "quicksort", which is not stable: the order of labels with
\* equal counts is whatever the build produces.
sort_values(counts) ==
    { s \in Permutations_of(DOMAIN counts) :
        \A i, j \in 1..Len(s) : i < j => counts[s[i]] <= counts[s[j]] }

\* ------------------------------------------------------------------------
\* step2_finalize.finalize_step2_assignments
\* ------------------------------------------------------------------------
BootstrapClassSize == 25

BootstrapMinClasses == 2

resolve_final_col_name(step2_col, final_col_name) ==
    IF final_col_name = None THEN default_final_col_name(step2_col)
    ELSE final_col_name

\* mutant of unplaced_rows: the mask inverted (pd.notna for pd.isna)
unplaced_rows_inverted(df, col) == { r \in Index(df) : ~isna(df.rows[r][col]) }

\* unplaced_mask = pd.isna(result_df[final_col_name]), as the set of its rows
unplaced_rows(df, col) == { r \in Index(df) : isna(df.rows[r][col]) }

\* mutant of copy_step2_column: only the placed rows are kept
\* (df[df[step2_col].notna()] for df.copy())
copy_step2_column_placed_only(df, step2_col, final_col) ==
    LET kept == rows_in_order({ r \in Index(df) : ~isna(df.rows[r][step2_col]) }, len(df))
        sub  == [columns |-> df.columns, rows |-> [i \in 1..Len(kept) |-> df.rows[kept[i]]]]
    IN  set_column(sub, final_col, column(sub, step2_col))

\* result_df = df.copy(); result_df[final_col_name] = result_df[step2_col].copy()
copy_step2_column(df, step2_col, final_col) ==
    set_column(df, final_col, column(df, step2_col))

\* result_df[unplaced_mask]["ONOMA"].tolist()
unplaced_names(df, col) ==
    LET rs == rows_in_order(unplaced_rows(df, col), len(df))
    IN  [i \in 1..Len(rs) |-> df.rows[rs[i]][ONOMA]]

\* the bootstrap class set: labels "A1".."An", each with population 0
bootstrap_classes(df) ==
    LET num_classes == max(BootstrapMinClasses, ceil_div(len(df), BootstrapClassSize))
    IN  [c \in 1..num_classes |-> 0]

placed_classes(df, col) ==
    IF DOMAIN value_counts(df, col) = {} THEN bootstrap_classes(df)
    ELSE value_counts(df, col)

\* result_df[result_df["ONOMA"] == student_name].index : a missing name
\* equals nothing, itself included
rows_named(df, student_name) ==
    { r \in Index(df) : ~isna(student_name) /\ df.rows[r][ONOMA] = student_name }

\* mutant of target_class: the label after the one the list holds
target_class_next_label(classes_by_size, i) ==
    classes_by_size[(i % Len(classes_by_size)) + 1] + 1

target_class(classes_by_size, i) ==
    classes_by_size[(i % Len(classes_by_size)) + 1]

\* one pass of the loop body for the unplaced student number i (from 0)
place_student(result_df, final_col, names, classes_by_size, i) ==
    set_cell(result_df, Min(rows_named(result_df, names[i + 1])), final_col,
             target_class(classes_by_size, i))

RECURSIVE place_loop(_, _, _, _, _)
place_loop(result_df, final_col, names, classes_by_size, i) ==
    IF i >= Len(names) THEN [kind |-> "return", df |-> result_df]
    ELSE IF rows_named(result_df, names[i + 1]) = {}
         THEN [kind |-> "raise", exc |-> "IndexError"]
    ELSE place_loop(place_student(result_df, final_col, names, classes_by_size, i),
                    final_col, names, classes_by_size, i + 1)

stats_all_placed(result_df, final_col) ==
    [total_students     |-> len(result_df),
     already_placed     |-> len(result_df),
     newly_placed       |-> 0,
     class_distribution |-> value_counts(result_df, final_col)]

stats_after_placing(result_df, final_col, unplaced_count) ==
    LET final_distribution == value_counts(result_df, final_col)
        sizes == { final_distribution[c] : c \in DOMAIN final_distribution }
    IN  [total_students     |-> len(result_df),
         already_placed     |-> len(result_df) - unplaced_count,
         newly_placed       |-> unplaced_count,
         class_distribution |-> final_distribution,
         min_class_size     |-> IF sizes = {} THEN 0 ELSE Min(sizes),
         max_class_size     |-> IF sizes = {} THEN 0 ELSE Max(sizes)]

\* the part of the function after the early return, for one outcome of the sort
place_unplaced(result_df, final_col, classes_by_size) ==
    LET unplaced_count == Cardinality(unplaced_rows(result_df, final_col))
        placed == place_loop(result_df, final_col,
                             unplaced_names(result_df, final_col),
                             classes_by_size, 0)
    IN  IF placed.kind = "raise" THEN placed
        ELSE [kind  |-> "return",
              df    |-> placed.df,
              stats |-> stats_after_placing(placed.df, final_col, unplaced_count)]

\* mutant of df_after_finalize: result_df = df, the writes land in the
\* caller's table
df_after_finalize_no_copy(df, outcome) ==
    IF outcome.kind = "return" THEN outcome.df ELSE df

\* The caller's df after the call with the given outcome: result_df is
\* df.copy() (a deep copy), and every write of the function (the new column,
\* the .loc of the loop) goes to result_df.
df_after_finalize(df, outcome) == df

\* The set of outcomes of finalize_step2_assignments(df, step2_col,
\* final_col_name): a returned (DataFrame, stats) or a raised exception.
finalize_step2_assignments(df, step2_col, final_col_name) ==
    LET final_col == resolve_final_col_name(step2_col, final_col_name)
    IN  IF ~has_column(df, step2_col) THEN { [kind |-> "raise", exc |-> "KeyError"] }
        ELSE LET result_df == copy_step2_column(df, step2_col, final_col)
             IN  IF unplaced_rows(result_df, final_col) = {}
                 THEN { [kind  |-> "return",
                         df    |-> result_df,
                         stats |-> stats_all_placed(result_df, final_col)] }
                 ELSE IF ~has_column(result_df, ONOMA)
                 THEN { [kind |-> "raise", exc |-> "KeyError"] }
                 ELSE { place_unplaced(result_df, final_col, classes_by_size) :
                          classes_by_size \in sort_values(placed_classes(result_df, final_col)) }

\* ------------------------------------------------------------------------
\* step2_finalize.validate_final_assignments
\* ------------------------------------------------------------------------
\* The df handed to validate_final_assignments after the call: the function
\* only reads it (pd.isna, nunique, dropna().unique(), value_counts all
\* return new objects).
df_after_validate(df, final_col) == df

\* the dict validation is created with
validation_counts(df, final_col) ==
    LET class_sizes == value_counts(df, final_col)
    IN  [total_students              |-> len(df),
         students_with_assignment    |-> Cardinality({ r \in Index(df) : ~isna(df.rows[r][final_col]) }),
         students_without_assignment |-> Cardinality(unplaced_rows(df, final_col)),
         is_complete                 |-> (Cardinality(unplaced_rows(df, final_col)) = 0),
         unique_classes              |-> Cardinality(DOMAIN class_sizes),
         class_list                  |-> DOMAIN class_sizes]

\* the statistics of class_sizes = df[final_col].value_counts(); the mean
\* total / n is kept as <<total, n>> and the squared standard deviation
\* (n * squares - total^2) / (n * (n - 1)) as its numerator and denominator
class_size_statistics(df, final_col) ==
    LET class_sizes == value_counts(df, final_col)
        sizes == { class_sizes[c] : c \in DOMAIN class_sizes }
        n == Cardinality(DOMAIN class_sizes)
        total == SumOver(class_sizes, DOMAIN class_sizes)
        squares == SumOver([c \in DOMAIN class_sizes |-> class_sizes[c] * class_sizes[c]],
                           DOMAIN class_sizes)
    IN  [min_class_size |-> IF sizes = {} THEN NaN ELSE Min(sizes),
         max_class_size |-> IF sizes = {} THEN NaN ELSE Max(sizes),
         avg_class_size |-> <<total, n>>,
         class_size_std |-> <<n * squares - total * total, n * (n - 1)>>]

\* dict.update(other)
dict_update(dict, other) ==
    [k \in (DOMAIN dict) \cup (DOMAIN other) |->
        IF k \in DOMAIN other THEN other[k] ELSE dict[k]]

\* mutant of validate_final_assignments: the statistics added whatever
\* is_complete says
validate_final_assignments_always_update(df, final_col) ==
    dict_update(validation_counts(df, final_col), class_size_statistics(df, final_col))

validate_final_assignments(df, final_col) ==
    IF validation_counts(df, final_col).is_complete
    THEN dict_update(validation_counts(df, final_col), class_size_statistics(df, final_col))
    ELSE validation_counts(df, final_col)

\* ------------------------------------------------------------------------
\* main_step2_with_lock.run_step2_with_lock
\* ------------------------------------------------------------------------
\* [col for col in df.columns if col.startswith(prefix)]
columns_starting(df, prefix) ==
    SelectSeq(df.columns, LAMBDA c : startswith(c, prefix))

\* One pass of the loop over the scenarios, for scenario_df: the scenario is
\* skipped ("continue"), the lock raises, or the locked table is validated
\* and saved whatever the validation says.
process_scenario(scenario_df) ==
    LET step2_cols == columns_starting(scenario_df, <<"BHMA2_">>)
    IN  IF step2_cols = <<>> THEN { [kind |-> "continue"] }
        ELSE { IF locked.kind = "raise" THEN locked
               ELSE [kind       |-> "saved",
                     final_df   |-> locked.df,
                     lock_stats |-> locked.stats,
                     validation |-> validate_final_assignments(
                                       locked.df,
                                       columns_starting(locked.df, <<"TELIKO_">>)[1])] :
               locked \in finalize_step2_assignments(scenario_df, step2_cols[1], None) }

\* The loop from scenario number i on; files maps the number of every
\* scenario saved so far to what was saved for it
\* (step2_locked_scenario_<i>.xlsx and its summary).
RECURSIVE process_scenarios(_, _, _)
process_scenarios(scenarios, i, files) ==
    IF i > Len(scenarios) THEN { [kind |-> "return", files |-> files] }
    ELSE UNION { IF r.kind = "continue" THEN process_scenarios(scenarios, i + 1, files)
                 ELSE IF r.kind = "raise"
                      THEN { [kind |-> "raise", exc |-> r.exc, files |-> files] }
                 ELSE process_scenarios(scenarios, i + 1,
                                        files @@ (i :> [final_df   |-> r.final_df,
                                                        lock_stats |-> r.lock_stats,
                                                        validation |-> r.validation])) :
                 r \in process_scenario(scenarios[i]) }

\* The set of outcomes of run_step2_with_lock on the table df read from
\* input_file, scenarios being what step2_apply_FIXED_v3 returns for it:
\* sys.exit(1) ("exit"), an exception of the lock ("raise") or a normal
\* return, each with the files written to output_dir by then.
run_step2_with_lock(df, step1_column, scenarios) ==
    IF ~has_column(df, step1_column) THEN { [kind |-> "exit", files |-> <<>>] }
    ELSE IF scenarios = <<>> THEN { [kind |-> "exit", files |-> <<>>] }
    ELSE process_scenarios(scenarios, 1, <<>>)

\* ------------------------------------------------------------------------
\* The locking routine as a state machine: every roster of at most
\* MaxStudents rows is locked, then validated or locked a second time
\* ------------------------------------------------------------------------
NoOutcome == [kind |-> "none"]

\* Student names matter to the code only through equality, so the names of
\* a roster are numbered in order of first appearance (a missing name is
\* NaN); names may repeat.
NameColumns(n) ==
    { s \in [1..n -> 0..n] :
        \A i \in 1..n : s[i] <= 1 + Max({0} \cup { s[j] : j \in 1..(i - 1) }) }

Rosters(col) ==
    UNION { { [columns |-> <<ONOMA, col>>,
               rows    |-> [r \in 1..n |->
                              [c \in {ONOMA, col} |->
                                  IF c = ONOMA THEN names[r] ELSE classes[r]]]] :
                names \in NameColumns(n), classes \in [1..n -> {NaN} \cup Classes] } :
            n \in 0..MaxStudents }

Step2ColArgs == { Step2Col("1") }

FinalColArgs == { None }

lock_final_col == resolve_final_col_name(lock_step2_col, lock_final_arg)

LockIdle ==
    /\ lock_step2_col = None
    /\ lock_final_arg = None
    /\ lock_df = None
    /\ out = NoOutcome
    /\ out2 = NoOutcome
    /\ validation = NoOutcome
    /\ lock_pc = "idle"
    /\ lock_df_after = None
    /\ validated_df_after = None

CliIdle ==
    /\ cli_df = None
    /\ cli_step1_column = None
    /\ cli_scenarios = <<>>
    /\ cli_out = NoOutcome
    /\ cli_pc = "idle"

Steps == 1..7

NoStep2 == [solver_called |-> FALSE, candidates |-> 0, written |-> {}, carried |-> {}]

\* neither run_step4 nor run_step5 called
NoStepColumn == [k \in {4, 5} |-> None]

\* the wrapper application not looked at
WrapperIdle ==
    /\ wrapper_in = None
    /\ wrapper_out = NoOutcome
    /\ wrapper_pc = "idle"

\* a session of main_app in which nothing has happened: init_session_state
AppIdle ==
    /\ data = None
    /\ results = <<>>
    /\ detailed_steps = <<>>
    /\ processing_status = "ready"
    /\ current_df = None
    /\ pc = "idle"
    /\ step_status = [k \in Steps |-> "pending"]
    /\ step2_info = NoStep2
    /\ run_no = 0
    /\ step_column = NoStepColumn
    /\ step1_results = None

LockInit ==
    /\ CliIdle
    /\ AppIdle
    /\ WrapperIdle
    /\ lock_step2_col \in Step2ColArgs
    /\ lock_final_arg \in FinalColArgs
    /\ lock_df \in Rosters(lock_step2_col)
    /\ out = NoOutcome
    /\ out2 = NoOutcome
    /\ validation = NoOutcome
    /\ lock_pc = "input"
    /\ lock_df_after = lock_df
    /\ validated_df_after = None

\* final_df, stats = finalize_step2_assignments(lock_df, lock_step2_col)
Finalize ==
    /\ lock_pc = "input"
    /\ out' \in finalize_step2_assignments(lock_df, lock_step2_col, lock_final_arg)
    /\ lock_pc' = "locked"
    /\ lock_df_after' = df_after_finalize(lock_df, out')
    /\ UNCHANGED <<lock_df, lock_step2_col, lock_final_arg, out2, validation, validated_df_after>>
    /\ UNCHANGED <<cli_vars, app_vars, wrapper_vars>>

\* the lock applied to the table a lock returned, on its final column
Relock ==
    /\ lock_pc = "locked"
    /\ out.kind = "return"
    /\ out2' \in finalize_step2_assignments(out.df, lock_final_col, lock_final_arg)
    /\ lock_pc' = "relocked"
    /\ UNCHANGED <<lock_df, lock_step2_col, lock_final_arg, out, validation,
                   lock_df_after, validated_df_after>>
    /\ UNCHANGED <<cli_vars, app_vars, wrapper_vars>>

\* validation = validate_final_assignments(final_df, lock_final_col)
Validate ==
    /\ lock_pc = "locked"
    /\ out.kind = "return"
    /\ validation' = validate_final_assignments(out.df, lock_final_col)
    /\ lock_pc' = "validated"
    /\ validated_df_after' = df_after_validate(out.df, lock_final_col)
    /\ UNCHANGED <<lock_df, lock_step2_col, lock_final_arg, out, out2, lock_df_after>>
    /\ UNCHANGED <<cli_vars, app_vars, wrapper_vars>>

LockNext == Finalize \/ Relock \/ Validate

SpecLock == LockInit /\ [][LockNext]_vars

\* ------------------------------------------------------------------------
\* The locking routine on rosters whose names are all different, under
\* step-2 columns of several names
\* ------------------------------------------------------------------------
\* rows of a roster of different names
MaxUniqueStudents == 4

\* names a step-2 column can have: with a scenario number after "_", after
\* a blank or after nothing, and without a scenario number
Step2ColNames ==
    { Step2Col("1"), Step2Col("2"),
      <<"BHMA2_", "SENARIO", " ", "3">>,
      <<"BHMA2_", "SENARIO", "2">>,
      <<"BHMA2_", "TMHMA">> }

UniqueRosters(col) ==
    UNION { { [columns |-> <<ONOMA, col>>,
               rows    |-> [r \in 1..n |->
                              [c \in {ONOMA, col} |->
                                  IF c = ONOMA THEN r ELSE classes[r]]]] :
                classes \in [1..n -> {NaN} \cup Classes] } :
            n \in 0..MaxUniqueStudents }

UniqueInit ==
    /\ CliIdle
    /\ AppIdle
    /\ WrapperIdle
    /\ lock_step2_col \in Step2ColNames
    /\ lock_final_arg \in FinalColArgs
    /\ lock_df \in UniqueRosters(lock_step2_col)
    /\ out = NoOutcome
    /\ out2 = NoOutcome
    /\ validation = NoOutcome
    /\ lock_pc = "input"
    /\ lock_df_after = lock_df
    /\ validated_df_after = None

SpecLockUnique == UniqueInit /\ [][LockNext]_vars

\* ------------------------------------------------------------------------
\* run_step2_with_lock as a state machine: every input table of at most
\* MaxRows rows and every list of at most MaxScenarios scenarios the solver
\* can return for it
\* ------------------------------------------------------------------------
\* A table with the name column and the given further columns; the step-1
\* column holds no placement (the solver alone decides what step 2 places).
Table(names, cols) ==
    [columns |-> <<ONOMA>> \o cols,
     rows    |-> [r \in 1..Len(names) |->
                    [c \in {ONOMA} \cup { cols[k] : k \in 1..Len(cols) } |->
                        IF c = ONOMA THEN names[r] ELSE NaN]]]

\* What the solver can return as the table of scenario number i: the input
\* table, with or without a step-2 column holding a partial assignment.
ScenarioTables(d, i) ==
    {d} \cup { set_column(d, Step2Col(Digit(i)), a) :
                 a \in [Index(d) -> {NaN} \cup Classes] }

SolverOutputs(d, max_results) ==
    UNION { { s \in [1..n -> UNION { ScenarioTables(d, i) : i \in 1..n }] :
                \A i \in 1..n : s[i] \in ScenarioTables(d, i) } :
            n \in 0..max_results }

CliInit ==
    /\ LockIdle
    /\ AppIdle
    /\ WrapperIdle
    /\ cli_step1_column = Step1Col("1")
    /\ \E n \in 0..MaxRows : \E names \in NameColumns(n) :
          cli_df \in { Table(names, <<cli_step1_column>>), Table(names, <<>>) }
    /\ cli_scenarios \in IF has_column(cli_df, cli_step1_column)
                          THEN SolverOutputs(cli_df, MaxScenarios)
                          ELSE { <<>> }
    /\ cli_out = NoOutcome
    /\ cli_pc = "start"

\* run_step2_with_lock(input_file, step1_column, output_dir)
RunStep2WithLock ==
    /\ cli_pc = "start"
    /\ cli_out' \in run_step2_with_lock(cli_df, cli_step1_column, cli_scenarios)
    /\ cli_pc' = "done"
    /\ UNCHANGED <<cli_df, cli_step1_column, cli_scenarios>>
    /\ UNCHANGED <<lock_vars, app_vars, wrapper_vars>>

CliNext == RunStep2WithLock

SpecStep2 == CliInit /\ [][CliNext]_vars

\* ------------------------------------------------------------------------
\* main_app: the run of all steps of a session
\* ------------------------------------------------------------------------
\* rows of an uploaded table
MaxUploadRows == 1

\* runs of all steps in one session
MaxRuns == 2

FYLO == <<"FYLO">>

KALH_GNOSH_ELLHNIKON == <<"KALH_GNOSH_ELLHNIKON">>

PAIDI_EKPAIDEYTIKOY == <<"PAIDI_EKPAIDEYTIKOY">>

ARXIKA_DEDOMENA == <<"ARXIKA_DEDOMENA">>

required_cols == <<ONOMA, FYLO, KALH_GNOSH_ELLHNIKON, PAIDI_EKPAIDEYTIKOY>>

\* mutant of validate_required_columns: the name column alone is required
validate_required_columns_name_only(df) == has_column(df, ONOMA)

\* validate_required_columns(df)[0]
validate_required_columns(df) ==
    \A k \in 1..Len(required_cols) : has_column(df, required_cols[k])

\* What safe_load_data returns for an uploaded file: the names as read (a
\* blank name cell is the text "nan", which every read_excel of a later
\* step takes for a missing value: NaN here), the other columns normalised
\* to one of their two values (1 stands for the first).
LoadedTable(names, cols) ==
    [columns |-> <<ONOMA>> \o cols,
     rows    |-> [r \in 1..Len(names) |->
                    [c \in {ONOMA} \cup { cols[k] : k \in 1..Len(cols) } |->
                        IF c = ONOMA THEN names[r] ELSE 1]]]

LoadedTables ==
    UNION { { LoadedTable(names, cols) :
                names \in NameColumns(n),
                cols \in { Tail(required_cols), Tail(Tail(required_cols)) } } :
            n \in 0..MaxUploadRows }

\* dict[key] = value
dict_set(dict, key, value) == (key :> value) @@ dict

\* the first column of df whose name starts with one of the prefixes, None
\* when there is none
first_column_starting(df, prefixes) ==
    LET hits == SelectSeq(df.columns,
                          LAMBDA c : \E q \in 1..Len(prefixes) : startswith(c, prefixes[q]))
    IN  IF hits = <<>> THEN None ELSE hits[1]

\* mutant of first_column_of_chain: the chain walked from its end, the
\* oldest step first
first_column_of_chain_oldest(df, prefixes) ==
    LET with_hits == SelectSeq(prefixes, LAMBDA p : columns_starting(df, p) # <<>>)
    IN  IF with_hits = <<>> THEN None
        ELSE columns_starting(df, with_hits[Len(with_hits)])[1]

\* The fall-back chain of steps 4 and 5: the columns of the first prefix
\* that has any, and of these the first.
first_column_of_chain(df, prefixes) ==
    LET with_hits == SelectSeq(prefixes, LAMBDA p : columns_starting(df, p) # <<>>)
    IN  IF with_hits = <<>> THEN None ELSE columns_starting(df, with_hits[1])[1]

\* list(Path(temp_dir).glob("step2_locked_scenario_*.xlsx")): the files
\* written, in the order of the directory listing, which can be any
glob(files) == Permutations_of(DOMAIN files)

\* run_step2 from line 337 on, c being how run_step2_with_lock returned and
\* result_files the listing: the table of result_files[0], None without files
load_first_result(c, result_files) ==
    IF result_files = <<>>
    THEN [kind |-> "return", value |-> None, written |-> DOMAIN c.files, first |-> 0]
    ELSE [kind |-> "return", value |-> c.files[result_files[1]].final_df,
          written |-> DOMAIN c.files, first |-> result_files[1]]

\* The set of outcomes of run_step2(df_step1, step1_column), scenarios being
\* what the solver returns: SystemExit leaving the function (sys.exit is
\* not an Exception), or a returned value, None or the table of the file
\* that result_files[0] names.  The temporary workbook holds df_step1 as it
\* is (index=False; rows keep their positions), and the order of
\* Path.glob is that of the directory listing: any of the files written can
\* come first.  written is what run_step2_with_lock left in the directory,
\* first the number of the scenario that was loaded (0 for none).
run_step2(df_step1, step1_column, scenarios) ==
    UNION { IF c.kind = "exit"
            THEN { [kind |-> "SystemExit", value |-> None,
                    written |-> DOMAIN c.files, first |-> 0] }
            ELSE IF c.kind = "raise"
            THEN { [kind |-> "return", value |-> None,
                    written |-> DOMAIN c.files, first |-> 0] }
            ELSE { load_first_result(c, result_files) : result_files \in glob(c.files) } :
            c \in run_step2_with_lock(df_step1, step1_column, scenarios) }

\* mutant of step2_next: step 2 degrades like steps 3 to 7 do
step2_next_degrading(r) == "step3"

\* where main goes after run_step2: on with step 3, or out of the run
\* (st.stop() on None; SystemExit passes the except Exception of main)
step2_next(r) ==
    IF r.kind = "SystemExit" \/ r.value = None THEN "idle" ELSE "step3"

\* how step 2 ended, for step_status
step2_status(r) ==
    IF r.kind = "SystemExit" THEN "exited"
    ELSE IF r.value = None THEN "failed"
    ELSE "ok"

\* what the step modules outside this repository's sources hand back to
\* run_step1, run_step3 .. run_step6: nothing (an exception, caught and
\* turned into None) or the table with the step's column; main reads the
\* names of the columns only, so the column holds one class throughout
StepCol(prefix) == <<prefix, "SENARIO", "_", "1">>

BHMA6_TMHMA == <<"BHMA6_", "TMHMA">>

TMHMA == <<"TMHMA">>

with_step_column(df, col, value) ==
    set_column(df, col, [r \in Index(df) |-> value])

BHMA1_TMHMA == <<"BHMA1_", "TMHMA">>

\* run_step1(current_df, num_classes)[0]: None, or the table with the
\* columns of the step-1 scenarios, of which there may be none; the step
\* module may name its column as a scenario or not
Step1Outputs(df) ==
    { None, df, with_step_column(df, Step1Col("1"), NaN),
      with_step_column(df, BHMA1_TMHMA, NaN) }

\* st.session_state.step1_results after run_step1 (line 285): set once the
\* step module has returned, also when run_step1 then fails on the way to
\* its return and hands back None
Step1Results == <<"Step1Results">>

step1_results_after(before, df_step1) ==
    IF df_step1 = None THEN {before, Step1Results} ELSE {Step1Results}

\* mutant of step1_next: step 1 degrades like steps 3 to 7 do
step1_next_degrading(df_step1) == "step2"

\* where main goes after run_step1: on with step 2, or out of the run
\* (st.stop() on None)
step1_next(df_step1) == IF df_step1 = None THEN "idle" ELSE "step2"

\* run_step3 .. run_step6 on df, col being the column the step adds
StepOutputs(df, col) ==
    { None, with_step_column(df, col, 1) }

\* scenario_cols of run_step7: the columns that start with BHMA6_, for want
\* of any those of BHMA6_TMHMA and TMHMA that the table has
step7_scenario_cols(df_step6) ==
    IF columns_starting(df_step6, <<"BHMA6_">>) # <<>>
    THEN columns_starting(df_step6, <<"BHMA6_">>)
    ELSE SelectSeq(<<BHMA6_TMHMA, TMHMA>>, LAMBDA c : has_column(df_step6, c))

\* run_step7(df_step6): None without scoring when there is no scenario
\* column, else None (an exception) or the score of the first column
run_step7(df_step6) ==
    IF step7_scenario_cols(df_step6) = <<>> THEN { None }
    ELSE { None, [result |-> step7_scenario_cols(df_step6)[1],
                  scores |-> step7_scenario_cols(df_step6)[1]] }

\* st.session_state.detailed_steps[col] = df.copy() for every column of df
\* that starts with prefix
keep_detailed_steps(steps, df, prefix) ==
    [key \in (DOMAIN steps) \cup { c \in { df.columns[k] : k \in 1..Len(df.columns) } :
                                    startswith(c, prefix) } |->
        IF \E k \in 1..Len(df.columns) : df.columns[k] = key /\ startswith(key, prefix)
        THEN df ELSE steps[key]]

\* The body of one "with st.status(...)" block of steps 3 to 6: value is
\* what run_step<k> returned; None is labelled "skipped over" and the run
\* goes on with the table it had
AfterStep(k, key, prefix, value, entry) ==
    /\ step_status' = [step_status EXCEPT ![k] = IF value = None THEN "failed" ELSE "ok"]
    /\ current_df' = IF value = None THEN current_df ELSE value
    /\ results' = IF value = None THEN results ELSE dict_set(results, key, entry)
    /\ detailed_steps' = IF value = None THEN detailed_steps
                         ELSE keep_detailed_steps(detailed_steps, value, prefix)
    /\ UNCHANGED <<data, processing_status, step2_info>>

\* the step is not called: no column to run it on
StepNotCalled(k) ==
    /\ step_status' = [step_status EXCEPT ![k] = "skipped"]
    /\ UNCHANGED <<data, results, detailed_steps, processing_status, current_df, step2_info>>

\* the upload of a file on a session without data (lines 672-706); in the
\* script run that follows a reset, the file that the uploader still holds
Upload ==
    /\ pc \in {"idle", "rerun"}
    /\ data = None
    /\ pc' = "idle"
    /\ data' \in LoadedTables
    /\ detailed_steps' =
          IF validate_required_columns(data') /\ ARXIKA_DEDOMENA \notin DOMAIN detailed_steps
          THEN dict_set(detailed_steps, ARXIKA_DEDOMENA, data')
          ELSE detailed_steps
    /\ UNCHANGED <<results, processing_status, current_df, step_status, step2_info>>
    /\ UNCHANGED <<run_no, step_column, step1_results, lock_vars, cli_vars, wrapper_vars>>

\* The button that runs all steps, pressed on a session whose data passed
\* validation, for the first time in the session (Rerun is the button
\* pressed on a session that has run).
StartRun ==
    /\ pc = "idle"
    /\ data # None
    /\ validate_required_columns(data)
    /\ processing_status = "ready"
    /\ processing_status' = "running"
    /\ current_df' = data
    /\ pc' = "step1"
    /\ run_no' = run_no + 1
    /\ UNCHANGED <<data, results, detailed_steps, step_status, step2_info>>
    /\ UNCHANGED <<step_column, step1_results>>
    /\ UNCHANGED <<lock_vars, cli_vars, wrapper_vars>>

Step1 ==
    /\ pc = "step1"
    /\ \E df_step1 \in Step1Outputs(current_df) :
          /\ step_status' = [step_status EXCEPT ![1] = IF df_step1 = None THEN "failed" ELSE "ok"]
          /\ current_df' = IF df_step1 = None THEN current_df ELSE df_step1
          /\ results' = IF df_step1 = None THEN results
                        ELSE dict_set(results, "step1", [df |-> df_step1])
          /\ detailed_steps' = IF df_step1 = None THEN detailed_steps
                               ELSE keep_detailed_steps(detailed_steps, df_step1,
                                                        <<"BHMA1_", "SENARIO", "_">>)
          /\ step1_results' \in step1_results_after(step1_results, df_step1)
          /\ pc' = step1_next(df_step1)
    /\ UNCHANGED <<data, processing_status, step2_info, step_column>>
    /\ UNCHANGED <<run_no, lock_vars, cli_vars, wrapper_vars>>

Step2 ==
    /\ pc = "step2"
    /\ LET step1_column == first_column_starting(current_df, << <<"BHMA1_", "SENARIO", "_">> >>)
       IN  IF step1_column = None
           THEN /\ StepNotCalled(2)
                /\ pc' = "step3"
           ELSE \E scenarios \in SolverOutputs(current_df, MaxScenarios) :
                \E r \in run_step2(current_df, step1_column, scenarios) :
                   /\ step2_info' = [solver_called |-> TRUE,
                                     candidates    |-> Len(scenarios),
                                     written       |-> r.written,
                                     carried       |-> IF r.first = 0 THEN {} ELSE {r.first}]
                   /\ step_status' = [step_status EXCEPT ![2] = step2_status(r)]
                   /\ current_df' = IF r.value = None THEN current_df ELSE r.value
                   /\ results' = IF r.value = None THEN results
                                 ELSE dict_set(results, "step2", [df |-> r.value])
                   /\ detailed_steps' =
                         IF r.value = None
                            \/ first_column_starting(r.value, << <<"BHMA2_">>, <<"TELIKO_">> >>) = None
                         THEN detailed_steps
                         ELSE dict_set(detailed_steps,
                                       first_column_starting(r.value,
                                                             << <<"BHMA2_">>, <<"TELIKO_">> >>),
                                       r.value)
                   /\ pc' = step2_next(r)
                   /\ UNCHANGED <<data, processing_status>>
    /\ UNCHANGED <<run_no, step_column, step1_results, lock_vars, cli_vars, wrapper_vars>>

Step3 ==
    /\ pc = "step3"
    /\ \E df_step3 \in StepOutputs(current_df, StepCol("BHMA3_")) :
          AfterStep(3, "step3", <<"BHMA3_">>, df_step3, [df |-> df_step3])
    /\ pc' = "step4"
    /\ UNCHANGED <<run_no, step_column, step1_results, lock_vars, cli_vars, wrapper_vars>>

Step4 ==
    /\ pc = "step4"
    /\ LET step3_column ==
               first_column_of_chain(current_df, << <<"BHMA3_">>, <<"BHMA2_">>, <<"BHMA1_">> >>)
       IN  IF step3_column = None
           THEN /\ StepNotCalled(4)
                /\ UNCHANGED step_column
           ELSE /\ \E df_step4 \in StepOutputs(current_df, StepCol("BHMA4_")) :
                      AfterStep(4, "step4", <<"BHMA4_">>, df_step4, [df |-> df_step4])
                /\ step_column' = [step_column EXCEPT ![4] = step3_column]
    /\ pc' = "step5"
    /\ UNCHANGED <<run_no, step1_results, lock_vars, cli_vars, wrapper_vars>>

Step5 ==
    /\ pc = "step5"
    /\ LET step4_column ==
               first_column_of_chain(current_df, << <<"BHMA4_">>, <<"BHMA3_">>, <<"BHMA2_">> >>)
       IN  IF step4_column = None
           THEN /\ StepNotCalled(5)
                /\ UNCHANGED step_column
           ELSE /\ \E df_step5 \in StepOutputs(current_df, StepCol("BHMA5_")) :
                      AfterStep(5, "step5", <<"BHMA5_">>, df_step5,
                                [df |-> df_step5, penalty |-> 0])
                /\ step_column' = [step_column EXCEPT ![5] = step4_column]
    /\ pc' = "step6"
    /\ UNCHANGED <<run_no, step1_results, lock_vars, cli_vars, wrapper_vars>>

Step6 ==
    /\ pc = "step6"
    /\ \E df_step6 \in StepOutputs(current_df, BHMA6_TMHMA) :
          AfterStep(6, "step6", <<"BHMA6_">>, df_step6, [df |-> df_step6])
    /\ pc' = "step7"
    /\ UNCHANGED <<run_no, step_column, step1_results, lock_vars, cli_vars, wrapper_vars>>

\* step 7 and the end of the run: processing_status = 'completed'
Step7 ==
    /\ pc = "step7"
    /\ \E step7_result \in run_step7(current_df) :
          /\ step_status' = [step_status EXCEPT ![7] = IF step7_result = None THEN "failed" ELSE "ok"]
          /\ results' = IF step7_result = None THEN results
                        ELSE dict_set(dict_set(results, "step7", step7_result),
                                      "final_df", current_df)
    /\ processing_status' = "completed"
    /\ pc' = "idle"
    /\ UNCHANGED <<data, detailed_steps, current_df, step2_info>>
    /\ UNCHANGED <<run_no, step_column, step1_results, lock_vars, cli_vars, wrapper_vars>>

\* the keys of st.session_state that the application writes after
\* init_session_state (debug_mode, the check box, is not followed)
session_state ==
    [data              |-> data,
     results           |-> results,
     detailed_steps    |-> detailed_steps,
     step1_results     |-> step1_results,
     processing_status |-> processing_status]

\* defaults of init_session_state, for these keys
session_defaults ==
    [data              |-> None,
     results           |-> <<>>,
     detailed_steps    |-> <<>>,
     step1_results     |-> None,
     processing_status |-> "ready"]

\* init_session_state(): every key that is absent gets its default
init_session_state(session) ==
    [key \in (DOMAIN session) \cup (DOMAIN session_defaults) |->
        IF key \in DOMAIN session THEN session[key] ELSE session_defaults[key]]

keys_to_keep == {"debug_mode"}

\* mutant of delete_keys: no key is deleted
delete_keys_keep_all(session, keep) == session

\* for key in list(st.session_state.keys()): if key not in keep: del ...
delete_keys(session, keep) ==
    [key \in (DOMAIN session) \cap keep |-> session[key]]

\* the reset button, shown with the results of a completed run: every key
\* of the session state but debug_mode is deleted, init_session_state sets
\* the defaults again
Reset ==
    /\ pc = "idle"
    /\ results # <<>>
    /\ processing_status = "completed"
    /\ LET session == init_session_state(delete_keys(session_state, keys_to_keep))
       IN  /\ data' = session.data
           /\ results' = session.results
           /\ detailed_steps' = session.detailed_steps
           /\ step1_results' = session.step1_results
           /\ processing_status' = session.processing_status
    /\ current_df' = None
    /\ pc' = "rerun"
    /\ step_status' = [k \in Steps |-> "pending"]
    /\ step2_info' = NoStep2
    /\ step_column' = NoStepColumn
    /\ run_no' = 0
    /\ UNCHANGED <<lock_vars, cli_vars, wrapper_vars>>

Init ==
    /\ LockIdle
    /\ CliIdle
    /\ AppIdle
    /\ WrapperIdle

Next ==
    \/ Upload
    \/ StartRun
    \/ Step1
    \/ Step2
    \/ Step3
    \/ Step4
    \/ Step5
    \/ Step6
    \/ Step7
    \/ Reset

Spec == Init /\ [][Next]_vars

\* ------------------------------------------------------------------------
\* main_app: a session whose button is pressed again.  The session state
\* outlives a script run, and the button is there on every script run of a
\* session with valid data.
\* ------------------------------------------------------------------------
\* the button pressed on a session that has run before: as StartRun, the
\* labels of the status blocks and what is known of step 2 starting anew
Rerun ==
    /\ pc = "idle"
    /\ data # None
    /\ validate_required_columns(data)
    /\ processing_status # "ready"
    /\ run_no < MaxRuns
    /\ processing_status' = "running"
    /\ current_df' = data
    /\ pc' = "step1"
    /\ run_no' = run_no + 1
    /\ step_status' = [k \in Steps |-> "pending"]
    /\ step2_info' = NoStep2
    /\ step_column' = NoStepColumn
    /\ UNCHANGED <<data, results, detailed_steps, step1_results>>
    /\ UNCHANGED <<lock_vars, cli_vars, wrapper_vars>>

\* a session right after the upload of a valid table
SessionInit ==
    /\ LockIdle
    /\ CliIdle
    /\ WrapperIdle
    /\ data \in { t \in LoadedTables : validate_required_columns(t) }
    /\ results = <<>>
    /\ detailed_steps = dict_set(<<>>, ARXIKA_DEDOMENA, data)
    /\ processing_status = "ready"
    /\ current_df = None
    /\ pc = "idle"
    /\ step_status = [k \in Steps |-> "pending"]
    /\ step2_info = NoStep2
    /\ run_no = 0
    /\ step_column = NoStepColumn
    /\ step1_results = None

SessionNext ==
    \/ StartRun
    \/ Rerun
    \/ Step1
    \/ Step2
    \/ Step3
    \/ Step4
    \/ Step5
    \/ Step6
    \/ Step7

SpecSession == SessionInit /\ [][SessionNext]_vars

\* ------------------------------------------------------------------------
\* main_app: the steps run one at a time (the box "run all steps"
\* unchecked): a button per step, for steps 1 to 3
\* ------------------------------------------------------------------------
\* rows of the table uploaded to a session whose steps are run one at a time
MaxPressRows == 1

\* scenarios the step-2 solver returns when the button of step 2 is pressed
MaxPressScenarios == 1

\* buttons pressed in one session
MaxPresses == 3

\* mutant of record_result: the entry is written whatever the step returned
record_result_always(res, key, value, entry) == dict_set(res, key, entry)

\* if value is not None: st.session_state.results[key] = entry
record_result(res, key, value, entry) ==
    IF value = None THEN res ELSE dict_set(res, key, entry)

\* how the steps of a script run ended in which the button of step k was
\* pressed: no other step is run in it
pressed(k, status) == [j \in Steps |-> IF j = k THEN status ELSE "pending"]

\* the button of step 1 (lines 832-835)
PressStep1 ==
    /\ pc = "idle"
    /\ data # None
    /\ validate_required_columns(data)
    /\ run_no < MaxPresses
    /\ run_no' = run_no + 1
    /\ \E df_step1 \in Step1Outputs(data) :
          /\ step_status' = pressed(1, IF df_step1 = None THEN "failed" ELSE "ok")
          /\ results' = record_result(results, "step1", df_step1, [df |-> df_step1])
          /\ detailed_steps' = IF df_step1 = None THEN detailed_steps
                               ELSE keep_detailed_steps(detailed_steps, df_step1,
                                                        <<"BHMA1_", "SENARIO", "_">>)
          /\ step1_results' \in step1_results_after(step1_results, df_step1)
    /\ UNCHANGED <<data, processing_status, current_df, pc, step2_info, step_column>>
    /\ UNCHANGED <<lock_vars, cli_vars, wrapper_vars>>

\* the button of step 2 (lines 838-844): nothing is run without a step-1
\* result in the session, or when its table has no step-1 scenario column
PressStep2 ==
    /\ pc = "idle"
    /\ data # None
    /\ validate_required_columns(data)
    /\ run_no < MaxPresses
    /\ run_no' = run_no + 1
    /\ IF "step1" \notin DOMAIN results
          \/ first_column_starting(results["step1"].df, << <<"BHMA1_", "SENARIO", "_">> >>) = None
       THEN /\ step_status' = pressed(2, "skipped")
            /\ UNCHANGED <<results, detailed_steps>>
       ELSE LET df_step1 == results["step1"].df
                step1_column == first_column_starting(df_step1, << <<"BHMA1_", "SENARIO", "_">> >>)
            IN  \E scenarios \in SolverOutputs(df_step1, MaxPressScenarios) :
                \E r \in run_step2(df_step1, step1_column, scenarios) :
                   /\ step_status' = pressed(2, step2_status(r))
                   /\ results' = record_result(results, "step2", r.value, [df |-> r.value])
                   /\ detailed_steps' =
                         IF r.value = None
                            \/ first_column_starting(r.value, << <<"BHMA2_">>, <<"TELIKO_">> >>) = None
                         THEN detailed_steps
                         ELSE dict_set(detailed_steps,
                                       first_column_starting(r.value,
                                                             << <<"BHMA2_">>, <<"TELIKO_">> >>),
                                       r.value)
    /\ UNCHANGED <<data, processing_status, current_df, pc, step2_info, step_column,
                   step1_results>>
    /\ UNCHANGED <<lock_vars, cli_vars, wrapper_vars>>

\* the button of step 3 (lines 847-851): nothing is run without a step-2
\* result in the session
PressStep3 ==
    /\ pc = "idle"
    /\ data # None
    /\ validate_required_columns(data)
    /\ run_no < MaxPresses
    /\ run_no' = run_no + 1
    /\ IF "step2" \notin DOMAIN results
       THEN /\ step_status' = pressed(3, "skipped")
            /\ UNCHANGED <<results, detailed_steps>>
       ELSE \E df_step3 \in StepOutputs(results["step2"].df, StepCol("BHMA3_")) :
               /\ step_status' = pressed(3, IF df_step3 = None THEN "failed" ELSE "ok")
               /\ results' = record_result(results, "step3", df_step3, [df |-> df_step3])
               /\ detailed_steps' = IF df_step3 = None THEN detailed_steps
                                    ELSE keep_detailed_steps(detailed_steps, df_step3,
                                                             <<"BHMA3_">>)
    /\ UNCHANGED <<data, processing_status, current_df, pc, step2_info, step_column,
                   step1_results>>
    /\ UNCHANGED <<lock_vars, cli_vars, wrapper_vars>>

SingleStepsNext ==
    \/ PressStep1
    \/ PressStep2
    \/ PressStep3

\* a session right after the upload of a valid table, the names of whose
\* students are all different
SingleStepsInit ==
    /\ LockIdle
    /\ CliIdle
    /\ WrapperIdle
    /\ \E n \in 0..MaxPressRows :
          data = LoadedTable([r \in 1..n |-> r], Tail(required_cols))
    /\ results = <<>>
    /\ detailed_steps = dict_set(<<>>, ARXIKA_DEDOMENA, data)
    /\ processing_status = "ready"
    /\ current_df = None
    /\ pc = "idle"
    /\ step_status = [k \in Steps |-> "pending"]
    /\ step2_info = NoStep2
    /\ run_no = 0
    /\ step_column = NoStepColumn
    /\ step1_results = None

SpecSingleSteps == SingleStepsInit /\ [][SingleStepsNext]_vars

\* ------------------------------------------------------------------------
\* app_wrapper_two_buttons: the button of steps 1 to 6 and the button of
\* steps 7 and 8
\* ------------------------------------------------------------------------
\* the values of the seed widget run from -MaxSeed to MaxSeed
MaxSeed == 3

\* value_if_true if condition else None, on the truth value Python gives a
\* number: 0 is false, every other number true
truthy(number) == number # 0

\* seed=int(seed_val) if seed_val else None; the integer n handed over is
\* written <<n>>, to tell it from None
seed_argument(seed_val) == IF truthy(seed_val) THEN <<seed_val>> ELSE None

\* What the press of the button does (lines 119-145): st.stop() after an
\* error message, or the call of step8.build_best_only_workbook with the
\* seed argument.
run_7_8(w) ==
    IF ~w.uploaded_step6 THEN [kind |-> "stop", seed |-> None]
    ELSE IF ~w.step7_path \/ ~w.step8_path THEN [kind |-> "stop", seed |-> None]
    ELSE IF ~w.has_build_best_only_workbook THEN [kind |-> "stop", seed |-> None]
    ELSE [kind |-> "call", seed |-> seed_argument(w.seed_val)]

\* the function of the exporter that the button of steps 1 to 6 calls:
\* build_step1_4_per_scenario if the module has it, else
\* build_step1_5_per_scenario, None when it has neither
exporter_function(attributes) ==
    IF "build_step1_4_per_scenario" \in attributes THEN <<"build_step1_4_per_scenario">>
    ELSE IF "build_step1_5_per_scenario" \in attributes THEN <<"build_step1_5_per_scenario">>
    ELSE None

\* st.stop() after st.error(...), the calls made and files written by then
stop_1_6(calls, files) ==
    [kind |-> "stop", calls |-> calls, files |-> files, download |-> FALSE]

\* mutant of run_1_6: the upload and the modules are not looked for
run_1_6_unchecked(w, export_returns, step6_returns) ==
    [kind     |-> "download",
     calls    |-> <<"build_step1_4_per_scenario", "export_single_noaudit">>,
     files    |-> {"out_1_5", "out_1_6"},
     download |-> TRUE]

\* What the press of the first button does (lines 56-109), export_returns
\* and step6_returns saying whether the call of the exporter and that of
\* step 6 return or raise: st.stop() after an error message, an exception
\* that leaves the script, or the download button of the step-6 workbook.
run_1_6(w, export_returns, step6_returns) ==
    IF ~w.uploaded_step1 THEN stop_1_6(<<>>, {})
    ELSE IF ~w.exporter_path THEN stop_1_6(<<>>, {})
    ELSE IF ~w.step6_path THEN stop_1_6(<<>>, {})
    ELSE IF exporter_function(w.exporter_attributes) = None THEN stop_1_6(<<>>, {})
    ELSE IF ~export_returns
    THEN [kind |-> "raise", calls |-> exporter_function(w.exporter_attributes),
          files |-> {}, download |-> FALSE]
    ELSE IF ~w.has_export_single_noaudit
    THEN stop_1_6(exporter_function(w.exporter_attributes), {"out_1_5"})
    ELSE IF ~step6_returns
    THEN [kind     |-> "raise",
          calls    |-> exporter_function(w.exporter_attributes) \o <<"export_single_noaudit">>,
          files    |-> {"out_1_5"},
          download |-> FALSE]
    ELSE [kind     |-> "download",
          calls    |-> exporter_function(w.exporter_attributes) \o <<"export_single_noaudit">>,
          files    |-> {"out_1_5", "out_1_6"},
          download |-> TRUE]

\* the page before the press: the files uploaded or not, the number in the
\* seed widget, the modules in the directory or not, and what functions
\* they have
WrapperInit ==
    /\ LockIdle
    /\ CliIdle
    /\ AppIdle
    /\ wrapper_in \in [uploaded_step1 : BOOLEAN,
                        exporter_path : BOOLEAN,
                        step6_path : BOOLEAN,
                        exporter_attributes : SUBSET {"build_step1_4_per_scenario",
                                                      "build_step1_5_per_scenario"},
                        has_export_single_noaudit : BOOLEAN,
                        uploaded_step6 : BOOLEAN,
                        seed_val : (0 - MaxSeed)..MaxSeed,
                        step7_path : BOOLEAN,
                        step8_path : BOOLEAN,
                        has_build_best_only_workbook : BOOLEAN]
    /\ wrapper_out = NoOutcome
    /\ wrapper_pc = "form"

Run16 ==
    /\ wrapper_pc = "form"
    /\ \E export_returns, step6_returns \in BOOLEAN :
          wrapper_out' = run_1_6(wrapper_in, export_returns, step6_returns)
    /\ wrapper_pc' = "done_1_6"
    /\ UNCHANGED wrapper_in
    /\ UNCHANGED <<lock_vars, cli_vars, app_vars>>

Run78 ==
    /\ wrapper_pc = "form"
    /\ wrapper_out' = run_7_8(wrapper_in)
    /\ wrapper_pc' = "done"
    /\ UNCHANGED wrapper_in
    /\ UNCHANGED <<lock_vars, cli_vars, app_vars>>

WrapperNext == Run16 \/ Run78

SpecWrapper == WrapperInit /\ [][WrapperNext]_vars

\* ------------------------------------------------------------------------
\* Claims about the locking routine (checked under SpecLock)
\* ------------------------------------------------------------------------
Returned == lock_pc # "input" /\ out.kind = "return"

\* two rows of the table carry the same (non-missing) name
has_duplicate_names(d) ==
    \E i, j \in Index(d) :
        i < j /\ ~isna(d.rows[i][ONOMA]) /\ d.rows[i][ONOMA] = d.rows[j][ONOMA]

\* the rows of d that have no class in column col
rows_without_class(d, col) == { r \in Index(d) : d.rows[r][col] = NaN }

\* the number of rows of d whose name is v
name_count(d, v) == Cardinality({ r \in Index(d) : d.rows[r][ONOMA] = v })

\* C1: whenever finalize_step2_assignments returns, every row of the
\* returned table has a class in the final column.
C1_TotalityOfLocking ==
    Returned => rows_without_class(out.df, lock_final_col) = {}

\* C2: every row that has a class in the step-2 column of the input has
\* that same class in the final column of the returned table.
C2_LockedNeverOverwritten ==
    Returned =>
        \A r \in Index(lock_df) :
            ~isna(lock_df.rows[r][lock_step2_col]) =>
                out.df.rows[r][lock_final_col] = lock_df.rows[r][lock_step2_col]

\* C3: when two students of the roster share a name, locking fails with
\* DuplicateIdentifierError and returns no assignment.
C3_DuplicatesRejected ==
    (lock_pc # "input" /\ has_duplicate_names(lock_df)) =>
        (out.kind = "raise" /\ out.exc = "DuplicateIdentifierError")

\* C9: when no student of the input is unplaced, the call returns every
\* student's class unchanged (and nothing else of the table changed), with
\* newly_placed = 0 and already_placed = total_students = the number of
\* rows; and locking the returned table once more returns the same table
\* and the same statistics again.
C9_LockOfTotalIsNoOp ==
    (lock_pc # "input" /\ rows_without_class(lock_df, lock_step2_col) = {}) =>
        /\ out.kind = "return"
        /\ column(out.df, lock_final_col) = column(lock_df, lock_step2_col)
        /\ \A c \in {ONOMA, lock_step2_col} : column(out.df, c) = column(lock_df, c)
        /\ out.stats.newly_placed = 0
        /\ out.stats.already_placed = len(lock_df)
        /\ out.stats.total_students = len(lock_df)
        /\ lock_pc = "relocked" => out2 = out

C9_Witness ==
    /\ lock_pc = "relocked"
    /\ len(lock_df) >= 3
    /\ rows_without_class(lock_df, lock_step2_col) = {}
    /\ Cardinality(DOMAIN out2.stats.class_distribution) = 2

\* C10: the returned table has as many rows as the input, every name
\* occurs in it as often as in the input, and every row keeps its name.
C10_ConservationOfStudents ==
    Returned =>
        /\ len(out.df) = len(lock_df)
        /\ \A v \in 0..MaxStudents : name_count(out.df, v) = name_count(lock_df, v)
        /\ column(out.df, ONOMA) = column(lock_df, ONOMA)

C10_Witness ==
    /\ Returned
    /\ len(lock_df) >= 3
    /\ Cardinality(rows_without_class(lock_df, lock_step2_col)) >= 2
    /\ has_duplicate_names(lock_df)

\* the class labels that occur in column col of d
labels_of(d, col) == { d.rows[r][col] : r \in Index(d) } \ {NaN}

\* the rows of d without a class in column col, in table order
unplaced_in_order(d, col) == rows_in_order(rows_without_class(d, col), len(d))

\* C11: every class label of the returned final column is a label of a
\* placed student of the input or, when the input places nobody, one of the
\* labels the bootstrap rule generates for the table.
C11_NoInventedLabels ==
    Returned =>
        IF labels_of(lock_df, lock_step2_col) # {}
        THEN labels_of(out.df, lock_final_col) \subseteq labels_of(lock_df, lock_step2_col)
        ELSE labels_of(out.df, lock_final_col) \subseteq DOMAIN bootstrap_classes(lock_df)

C11_Witness ==
    /\ Returned
    /\ Cardinality(rows_without_class(lock_df, lock_step2_col)) = 2
    /\ Cardinality(labels_of(lock_df, lock_step2_col)) = 1
    /\ rows_without_class(out.df, lock_final_col) = {}

\* C12: when the input places nobody, the bootstrap rule creates exactly
\* ceil(total / 25) classes, so the returned table has no more classes
\* than that (one class for a roster of 25 students or fewer).
C12_BootstrapClassCount ==
    (Returned /\ len(lock_df) > 0 /\ labels_of(lock_df, lock_step2_col) = {}) =>
        /\ Cardinality(DOMAIN bootstrap_classes(lock_df))
             = ceil_div(len(lock_df), BootstrapClassSize)
        /\ Cardinality(labels_of(out.df, lock_final_col))
             <= ceil_div(len(lock_df), BootstrapClassSize)

\* C13: the validation report counts every row once, as with or as without
\* an assignment; is_complete says that no row is without; and the
\* class-size statistics are in the report exactly when it is complete.
C13_ValidationReportConsistent ==
    lock_pc = "validated" =>
        /\ validation.total_students = len(out.df)
        /\ validation.students_without_assignment
             = Cardinality(rows_without_class(out.df, lock_final_col))
        /\ validation.students_with_assignment + validation.students_without_assignment
             = validation.total_students
        /\ validation.is_complete <=> (validation.students_without_assignment = 0)
        /\ \A k \in {"min_class_size", "max_class_size", "avg_class_size", "class_size_std"} :
              (k \in DOMAIN validation) <=> validation.is_complete

C13_Witness ==
    /\ lock_pc = "validated"
    /\ ~validation.is_complete
    /\ validation.students_with_assignment >= 2

C20_CyclicPlacement ==
    Returned =>
        \E classes_by_size \in
              sort_values(placed_classes(copy_step2_column(lock_df, lock_step2_col, lock_final_col),
                                         lock_final_col)) :
            \A i \in 1..Len(unplaced_in_order(lock_df, lock_step2_col)) :
                out.df.rows[unplaced_in_order(lock_df, lock_step2_col)[i]][lock_final_col]
                  = classes_by_size[((i - 1) % Len(classes_by_size)) + 1]

\* the classes the placement knows of: those of the placed students of the
\* input or, when it places nobody, the generated ones
known_classes ==
    IF labels_of(lock_df, lock_step2_col) # {} THEN labels_of(lock_df, lock_step2_col)
    ELSE DOMAIN bootstrap_classes(lock_df)

\* the number of rows of d with class c in column col
population(d, col, c) == Cardinality({ r \in Index(d) : d.rows[r][col] = c })

\* the number of students unplaced in the input that the call put in class c
received(c) ==
    Cardinality({ r \in rows_without_class(lock_df, lock_step2_col) :
                    out.df.rows[r][lock_final_col] = c })

\* the known classes ascending by population in the input, classes of equal
\* population ascending by label ("A1" < "A2")
by_population_then_label ==
    CHOOSE s \in Permutations_of(known_classes) :
        \A i, j \in 1..Len(s) :
            i < j =>
                \/ population(lock_df, lock_step2_col, s[i])
                     < population(lock_df, lock_step2_col, s[j])
                \/ /\ population(lock_df, lock_step2_col, s[i])
                        = population(lock_df, lock_step2_col, s[j])
                   /\ s[i] < s[j]

\* C21: on a roster without repeated names, the i-th unplaced row (i from
\* 0) gets the class at index i mod k of the list of the known classes
\* ordered by population and, for equal populations, by label: the
\* populations and labels alone fix the placement.
C21_OrderByPopulationThenLabel ==
    (Returned /\ ~has_duplicate_names(lock_df)) =>
        \A i \in 1..Len(unplaced_in_order(lock_df, lock_step2_col)) :
            out.df.rows[unplaced_in_order(lock_df, lock_step2_col)[i]][lock_final_col]
              = by_population_then_label[((i - 1) % Len(by_population_then_label)) + 1]

\* C22: whenever the call returns, the statistics hold all six entries,
\* already_placed + newly_placed = total_students, newly_placed is the
\* number of rows unplaced in the input, the counts of class_distribution
\* add up to total_students, and min_class_size and max_class_size are the
\* smallest and largest of these counts.
C22_LockStatsComplete ==
    Returned =>
        /\ {"total_students", "already_placed", "newly_placed", "class_distribution",
            "min_class_size", "max_class_size"} \subseteq DOMAIN out.stats
        /\ out.stats.already_placed + out.stats.newly_placed = out.stats.total_students
        /\ out.stats.total_students = len(lock_df)
        /\ out.stats.newly_placed = Cardinality(rows_without_class(lock_df, lock_step2_col))
        /\ SumOver(out.stats.class_distribution, DOMAIN out.stats.class_distribution)
             = out.stats.total_students
        /\ DOMAIN out.stats.class_distribution # {} =>
              /\ out.stats.min_class_size
                   = Min({ out.stats.class_distribution[c] :
                             c \in DOMAIN out.stats.class_distribution })
              /\ out.stats.max_class_size
                   = Max({ out.stats.class_distribution[c] :
                             c \in DOMAIN out.stats.class_distribution })

\* ------------------------------------------------------------------------
\* Claims about the locking routine on rosters of different names (checked
\* under SpecLockUnique)
\* ------------------------------------------------------------------------
\* the largest difference of two values of f over the classes S
spread(f, S) == Max({ f[c] : c \in S }) - Min({ f[c] : c \in S })

\* C23: on a roster without repeated names, the numbers of newly placed
\* students of two known classes differ by at most 1, a class of smaller
\* population in the input receives no fewer than one of larger
\* population, and the sizes of the known classes differ after the call by
\* at most max(d, 1), d being their largest difference in the input.
C23_BalanceNotWorsened ==
    (Returned /\ ~has_duplicate_names(lock_df)) =>
        /\ \A a, b \in known_classes :
              /\ received(a) - received(b) <= 1
              /\ population(lock_df, lock_step2_col, a) < population(lock_df, lock_step2_col, b)
                    => received(a) >= received(b)
        /\ spread([c \in known_classes |-> population(out.df, lock_final_col, c)], known_classes)
             <= max(spread([c \in known_classes |-> population(lock_df, lock_step2_col, c)],
                           known_classes), 1)

C23_Witness ==
    /\ Returned
    /\ len(lock_df) >= 4
    /\ \E a, b \in known_classes :
          /\ population(lock_df, lock_step2_col, a) < population(lock_df, lock_step2_col, b)
          /\ received(a) > received(b)

\* the last column of the table d
last_column(d) == d.columns[Len(d.columns)]

C4_EmittedScenariosComplete ==
    cli_pc = "done" =>
        \A i \in DOMAIN cli_out.files :
            /\ cli_out.files[i].validation.is_complete
            /\ cli_out.files[i].validation.students_with_assignment
                 = cli_out.files[i].validation.total_students
            /\ rows_without_class(cli_out.files[i].final_df,
                                  default_final_col_name(Step2Col(Digit(i)))) = {}

\* ------------------------------------------------------------------------
\* Claims about the run of all steps of main_app (checked under Spec)
\* ------------------------------------------------------------------------
\* step 2 of the run was called and came back with a table
Step2Succeeded == step_status[2] = "ok"

\* C5: when step 2 succeeds, every scenario it locked and wrote is carried
\* on to the next step; none is dropped in favour of the first one.
C5_AllCandidatesCarried ==
    Step2Succeeded => step2_info.carried = step2_info.written

\* C6: once a step has failed, the run is not reported completed and no
\* later step has been run.
C6_FailureAbortsRun ==
    \A k \in Steps :
        step_status[k] \in {"failed", "exited"} =>
            /\ processing_status # "completed"
            /\ \A j \in Steps : j > k => step_status[j] = "pending"

\* C7: when the step-2 solver returned no scenario, step 2 has not
\* succeeded, the run is over, none of the steps 3 to 7 has been run,
\* nothing of step 2 is among the results and the session is not reported
\* completed.
C7_ZeroCandidatesAbort ==
    (step2_info.solver_called /\ step2_info.candidates = 0) =>
        /\ ~Step2Succeeded
        /\ pc = "idle"
        /\ \A j \in Steps : j > 2 => step_status[j] = "pending"
        /\ "step2" \notin DOMAIN results
        /\ processing_status # "completed"

C7_Witness ==
    /\ step2_info.solver_called
    /\ step2_info.candidates = 0
    /\ step_status[1] = "ok"
    /\ step_status[2] = "exited"
    /\ len(current_df) > 0

\* C8: when step 2 succeeds, every scenario the solver returned was locked,
\* validated and written: none was skipped.
C8_PhaseAllOrNothing ==
    Step2Succeeded => step2_info.written = 1..step2_info.candidates

\* a required column is missing from d
lacks_required_column(d) ==
    \E c \in {ONOMA, FYLO, KALH_GNOSH_ELLHNIKON, PAIDI_EKPAIDEYTIKOY} : ~has_column(d, c)

\* C14: which table step 2 hands on does not depend on the order in which
\* the scenario files are listed: for every list of scenarios the solver
\* can return, every listing of the files written gives the same table.
C14_SelectionIndependentOfOrder ==
    (pc = "step2"
     /\ first_column_starting(current_df, << <<"BHMA1_", "SENARIO", "_">> >>) # None) =>
        \A scenarios \in SolverOutputs(current_df, MaxScenarios) :
        \A c \in run_step2_with_lock(
                    current_df,
                    first_column_starting(current_df, << <<"BHMA1_", "SENARIO", "_">> >>),
                    scenarios) :
            c.kind = "return" =>
                \A o1, o2 \in glob(c.files) :
                    load_first_result(c, o1).value = load_first_result(c, o2).value

\* C16: a run is reported completed only when the final selection of
\* step 7 had a scenario column to score.
C16_NoCompletionWithoutCandidate ==
    processing_status = "completed" => step7_scenario_cols(current_df) # <<>>

\* C17: while the uploaded table lacks a required column, no run has
\* started, no step has been executed and nothing is recorded in the
\* session.
C17_FailFastOnMissingColumns ==
    (data # None /\ lacks_required_column(data)) =>
        /\ pc = "idle"
        /\ processing_status = "ready"
        /\ current_df = None
        /\ \A k \in Steps : step_status[k] = "pending"
        /\ ~step2_info.solver_called
        /\ results = <<>>
        /\ detailed_steps = <<>>

C17_Witness ==
    /\ data # None
    /\ lacks_required_column(data)
    /\ len(data) > 0

\* C24: a run reported completed had step 1 succeed and step 2 succeed or
\* not be called for want of a step-1 scenario column; and once step 1 or
\* step 2 has failed, the run is over, no later step has been executed and
\* the session is not reported completed.
C24_GatingOfRun ==
    /\ processing_status = "completed" =>
          /\ step_status[1] = "ok"
          /\ step_status[2] \in {"ok", "skipped"}
          /\ step_status[2] = "skipped" =>
                columns_starting(results["step1"].df, <<"BHMA1_", "SENARIO", "_">>) = <<>>
    /\ \A k \in {1, 2} :
          step_status[k] \in {"failed", "exited"} =>
              /\ pc = "idle"
              /\ \A j \in Steps : j > k => step_status[j] = "pending"
              /\ processing_status # "completed"

C24_Witness ==
    /\ processing_status = "completed"
    /\ step_status[2] = "skipped"
    /\ step_status[4] = "ok"
    /\ len(current_df) > 0

\* a column of d starts with prefix
has_column_starting(d, prefix) ==
    \E k \in 1..Len(d.columns) : startswith(d.columns[k], prefix)

\* step k was called with a column that starts with prefix
StepTook(k, prefix) ==
    /\ step_status'[k] \in {"ok", "failed"}
    /\ step_column'[k] # None
    /\ startswith(step_column'[k], prefix)
    /\ has_column(current_df, step_column'[k])

\* step k was not called, and the table goes on as it is
StepPassedOver(k) ==
    /\ step_status'[k] = "skipped"
    /\ step_column'[k] = None
    /\ current_df' = current_df

\* C25: step 4 is called with a step-3 column of the current table if
\* there is one, else with a step-2 column, else with a step-1 column;
\* step 5 with a step-4 column, else step-3, else step-2; a step for which
\* the table has none of its columns is not called and leaves the table
\* as it is.
C25_NewestPhaseOutput ==
    [][/\ pc = "step4" =>
            IF has_column_starting(current_df, <<"BHMA3_">>) THEN StepTook(4, <<"BHMA3_">>)
            ELSE IF has_column_starting(current_df, <<"BHMA2_">>) THEN StepTook(4, <<"BHMA2_">>)
            ELSE IF has_column_starting(current_df, <<"BHMA1_">>) THEN StepTook(4, <<"BHMA1_">>)
            ELSE StepPassedOver(4)
       /\ pc = "step5" =>
            IF has_column_starting(current_df, <<"BHMA4_">>) THEN StepTook(5, <<"BHMA4_">>)
            ELSE IF has_column_starting(current_df, <<"BHMA3_">>) THEN StepTook(5, <<"BHMA3_">>)
            ELSE IF has_column_starting(current_df, <<"BHMA2_">>) THEN StepTook(5, <<"BHMA2_">>)
            ELSE StepPassedOver(5)]_vars

C25_Witness ==
    /\ pc = "step6"
    /\ step_status[3] = "failed"
    /\ step_status[4] = "failed"
    /\ step_column[4] = Step2Col("1")
    /\ step_column[5] = Step2Col("1")
    /\ has_column_starting(current_df, <<"BHMA1_">>)

\* the results view is on the page (line 854)
results_shown == results # <<>> /\ processing_status = "completed"

StepKey == <<"step1", "step2", "step3", "step4", "step5", "step6", "step7">>

StepPrefix == << <<"BHMA1_">>, <<"BHMA2_">>, <<"BHMA3_">>, <<"BHMA4_">>, <<"BHMA5_">>,
                 <<"BHMA6_">> >>

\* C19: when a run is reported completed, every step result and every
\* detailed-step table of the session comes from a step that succeeded in
\* this run.
C19_ContextPerRun ==
    processing_status = "completed" =>
        /\ \A k \in Steps : StepKey[k] \in DOMAIN results => step_status[k] = "ok"
        /\ "final_df" \in DOMAIN results => step_status[7] = "ok"
        /\ \A k \in 1..Len(StepPrefix) :
              (\E key \in DOMAIN detailed_steps : startswith(key, StepPrefix[k]))
                  => step_status[k] = "ok"

\* ------------------------------------------------------------------------
\* Claims about the steps run one at a time (checked under SpecSingleSteps)
\* ------------------------------------------------------------------------
\* the entry of step k in the session results was written in this step of
\* the behaviour
ResultWritten(k) ==
    /\ StepKey[k] \in DOMAIN results'
    /\ StepKey[k] \in DOMAIN results => results'[StepKey[k]] # results[StepKey[k]]

\* C26: step 2 is called only with a step-1 result in the session, step 3
\* only with a step-2 result; and the result of a step is written only
\* when the step was called and returned a table.
C26_SingleStepOrdering ==
    [][/\ step_status'[2] \in {"ok", "failed", "exited"} => "step1" \in DOMAIN results
       /\ step_status'[3] \in {"ok", "failed", "exited"} => "step2" \in DOMAIN results
       /\ \A k \in 1..3 :
             ResultWritten(k) =>
                 /\ step_status'[k] = "ok"
                 /\ results'[StepKey[k]].df # None]_vars

C26_Witness ==
    /\ {"step1", "step2", "step3"} \subseteq DOMAIN results
    /\ step_status[3] = "ok"
    /\ len(data) > 0
    /\ has_column_starting(results["step3"].df, <<"BHMA3_">>)

\* ------------------------------------------------------------------------
\* Claims about the wrapper's final selection (checked under SpecWrapper)
\* ------------------------------------------------------------------------
\* C15: whenever step 8 is called, it is given the seed of the seed widget,
\* whatever integer that is; it is never called without a seed, since the
\* widget always holds a number.
C15_SeedAlwaysPassed ==
    (wrapper_pc = "done" /\ wrapper_out.kind = "call") =>
        /\ wrapper_out.seed # None
        /\ wrapper_out.seed = <<wrapper_in.seed_val>>

\* C28: the first button calls the exporter only with a step-1 file
\* uploaded and both the exporter and the step-6 module found, and step 6
\* only after the export of steps 1 to 5 was written; the second button
\* calls build_best_only_workbook only with a step-6 file uploaded and
\* both the step-7 and the step-8 module found; without these a button
\* stops with an error, calls nothing and offers no download.
C28_WrapperGating ==
    /\ wrapper_pc = "done_1_6" =>
          /\ wrapper_out.calls # <<>> =>
                wrapper_in.uploaded_step1 /\ wrapper_in.exporter_path /\ wrapper_in.step6_path
          /\ (\E k \in 1..Len(wrapper_out.calls) : wrapper_out.calls[k] = "export_single_noaudit") =>
                /\ "out_1_5" \in wrapper_out.files
                /\ wrapper_out.calls[1] \in {"build_step1_4_per_scenario",
                                              "build_step1_5_per_scenario"}
                /\ wrapper_out.calls[2] = "export_single_noaudit"
          /\ wrapper_out.download => wrapper_out.files = {"out_1_5", "out_1_6"}
          /\ ~(wrapper_in.uploaded_step1 /\ wrapper_in.exporter_path /\ wrapper_in.step6_path) =>
                /\ wrapper_out.kind = "stop"
                /\ wrapper_out.calls = <<>>
                /\ ~wrapper_out.download
    /\ wrapper_pc = "done" =>
          /\ wrapper_out.kind = "call" =>
                wrapper_in.uploaded_step6 /\ wrapper_in.step7_path /\ wrapper_in.step8_path
          /\ ~(wrapper_in.uploaded_step6 /\ wrapper_in.step7_path /\ wrapper_in.step8_path) =>
                wrapper_out.kind = "stop"

C28_Witness ==
    /\ wrapper_pc = "done_1_6"
    /\ wrapper_out.kind = "stop"
    /\ wrapper_out.files = {"out_1_5"}
    /\ wrapper_in.exporter_attributes = {"build_step1_5_per_scenario"}

====
